---- MODULE Spec2Model ----
(***************************************************************************)
(* The three resource-attachment middlewares of hono-aws-middlewares       *)
(* (dynamoDBMiddleware, s3Middleware, secretsManagerMiddleware) running    *)
(* inside a Hono-style pipeline.                                           *)
(*                                                                         *)
(* A middleware factory captures a configuration.  Per request, the        *)
(* middleware body constructs two SDK objects from the captured            *)
(* configuration, publishes them in the request's context with c.set,      *)
(* awaits next(), and (S3 and Secrets Manager only) calls destroy() on     *)
(* both.  Every statement of the body is one action.  JavaScript runs a    *)
(* task to completion: `running` is the request that holds the thread, and *)
(* another request can run only when a task has reached an await.          *)
(***************************************************************************)
EXTENDS Naturals, Sequences, FiniteSets

VARIABLES
  app,      \* the registered middlewares, in app.use order
  phase,    \* "setup" until the first request, then "serving"
  heap,     \* every SDK object constructed so far; an object's identity is its index
  reqs,     \* the requests started so far, in order of arrival
  running   \* the request whose synchronous code is executing, 0 when none is

vars == <<app, phase, heap, reqs, running>>

----------------------------------------------------------------------------
(* Bounds of the model *)

\* app.use calls made during setup
MaxUse == 2

\* requests sent to the app
MaxRequests == 2

----------------------------------------------------------------------------
(* The values the program handles *)

Backends == {"DynamoDB", "S3", "SecretsManager"}

\* the region a configuration leaves to the SDK's ambient defaults
NoRegion == "unset"

Regions == {"ap-northeast-1"}

\* `{}`: every field left to the SDK
EmptyConfig == [region |-> NoRegion]

Configs == {EmptyConfig} \cup {[region |-> g] : g \in Regions}

\* the factory called with no argument
Omitted == [given |-> FALSE, config |-> EmptyConfig]

\* the factory called with configuration c
Given(c) == [given |-> TRUE, config |-> c]

ConfigArgs == {Omitted} \cup {Given(c) : c \in Configs}

Paths == {"/route1", "/route2"}

Patterns == {"*", "/route1"}

\* what a rejected next() carries
Errors == {"e1", "e2"}

\* c.get of a name nobody set
Undefined == 0

\* the response of a context no handler has written: Hono's 404
NoResponse == [status |-> 404, body |-> "404 Not Found"]

\* what the route handlers of the tests answer: c.text('OK')
HandlerResponse == [status |-> 200, body |-> "OK"]

----------------------------------------------------------------------------
(* The fixed names and the handle types of each middleware *)

\* the Variables the three Env interfaces declare, each with the type of handle
\* it is declared to hold
EnvVariables ==
  [n \in {"DynamoDB", "DynamoDBClient", "S3", "S3Client",
          "SecretsManager", "SecretsManagerClient"} |->
     CASE n = "DynamoDB" -> [class |-> "DynamoDB", level |-> "service"]
       [] n = "DynamoDBClient" -> [class |-> "DynamoDB", level |-> "client"]
       [] n = "S3" -> [class |-> "S3", level |-> "service"]
       [] n = "S3Client" -> [class |-> "S3", level |-> "client"]
       [] n = "SecretsManager" -> [class |-> "SecretsManager", level |-> "service"]
       [] n = "SecretsManagerClient" -> [class |-> "SecretsManager", level |-> "client"]]

\* the combined Env of lib/index.ts: the names a context can be asked for
Names == DOMAIN EnvVariables

\* a variant of ServiceName: the S3 body pasted into the other two without
\* renaming the first variable
ServiceName_Pasted(b) == "S3"

\* the name of the first c.set of the body
ServiceName(b) ==
  CASE b = "DynamoDB" -> "DynamoDB"
    [] b = "S3" -> "S3"
    [] b = "SecretsManager" -> "SecretsManager"

\* a variant of ClientName: the second c.set repeats the name of the first
ClientName_Repeated(b) == ServiceName(b)

\* the name of the second c.set of the body
ClientName(b) ==
  CASE b = "DynamoDB" -> "DynamoDBClient"
    [] b = "S3" -> "S3Client"
    [] b = "SecretsManager" -> "SecretsManagerClient"

\* a variant of ServiceType: the low-level class instantiated for both variables
ServiceType_LowLevel(b) == [class |-> b, level |-> "client"]

\* the class instantiated first: new DynamoDB / new S3 / new SecretsManager
ServiceType(b) == [class |-> b, level |-> "service"]

\* the class instantiated second: new DynamoDBClient / new S3Client / ...
ClientType(b) == [class |-> b, level |-> "client"]

\* a variant of CapturedConfig: the argument dropped, `{}` always
CapturedConfig_Dropped(arg) == EmptyConfig

\* a variant of CapturedConfig: a default parameter that names a region
CapturedConfig_DefaultRegion(arg) ==
  IF arg.given THEN arg.config ELSE [region |-> "ap-northeast-1"]

\* the default parameter `config = {}` of a factory
CapturedConfig(arg) == IF arg.given THEN arg.config ELSE EmptyConfig

\* a variant of Releases: the destroy() statements in all three bodies
Releases_All(b) == TRUE

\* a variant of Releases: the destroy() statements in the S3 body alone
Releases_S3Only(b) == b = "S3"

\* whether the body has the two destroy() statements after `await next()`
Releases(b) ==
  CASE b = "DynamoDB" -> FALSE
    [] b = "S3" -> TRUE
    [] b = "SecretsManager" -> TRUE

\* a pattern of app.use against the path of a request
Matches(pattern, path) == pattern = "*" \/ pattern = path

\* the indices into app of the middlewares a request to `path` runs, in order
RECURSIVE ChainFrom(_, _, _)
ChainFrom(a, path, i) ==
  IF i > Len(a) THEN << >>
  ELSE IF Matches(a[i].pattern, path)
       THEN <<i>> \o ChainFrom(a, path, i + 1)
       ELSE ChainFrom(a, path, i + 1)

\* a variant of Chain: the middlewares composed last-registered first
Chain_Reversed(a, path) ==
  LET c == ChainFrom(a, path, 1) IN [k \in 1..Len(c) |-> c[Len(c) + 1 - k]]

Chain(a, path) == ChainFrom(a, path, 1)

----------------------------------------------------------------------------
(* The SDK objects and the context *)

\* a variant of NewObject: objects kept in a pool keyed by class and
\* configuration, and handed out again
NewObject_Pooled(hp, type, cfg) ==
  LET pool == {h \in 1..Len(hp) : hp[h].type = type /\ hp[h].config = cfg} IN
  IF pool = {} THEN Len(hp) + 1 ELSE CHOOSE h \in pool : \A g \in pool : h <= g

\* the identity of the object a `new` expression yields: a new one each time
NewObject(hp, type, cfg) == Len(hp) + 1

\* the heap after `new type(cfg)`, evaluated by frame f of request r
Construct(hp, type, cfg, r, f) ==
  LET id == NewObject(hp, type, cfg) IN
  IF id > Len(hp)
  THEN Append(hp, [type |-> type, config |-> cfg, destroyed |-> 0,
                   req |-> r, frame |-> f])
  ELSE hp

\* handle.destroy()
Destroy(hp, h) == [hp EXCEPT ![h].destroyed = @ + 1]

\* the region a handle reports: handle.config.region()
RegionOf(hp, h) == hp[h].config.region

\* a new request's context: no variable set
EmptyContext == [n \in Names |-> Undefined]

\* a variant of CtxSet: the context's variables replaced by the one written
CtxSet_Replacing(var, name, h) == [n \in Names |-> IF n = name THEN h ELSE Undefined]

\* a variant of CtxSet: a variable that is already set keeps its value
CtxSet_KeepFirst(var, name, h) ==
  IF var[name] = Undefined THEN [var EXCEPT ![name] = h] ELSE var

\* c.set(name, h)
CtxSet(var, name, h) == [var EXCEPT ![name] = h]

\* c.get(name)
CtxGet(var, name) == var[name]

----------------------------------------------------------------------------
Init ==
  /\ app = << >>
  /\ phase = "setup"
  /\ heap = << >>
  /\ reqs = << >>
  /\ running = 0

\* app.use(pattern, <factory of b>(arg))
Use(pattern, b, arg) ==
  /\ phase = "setup"
  /\ Len(app) < MaxUse
  /\ app' = Append(app, [pattern |-> pattern, backend |-> b, arg |-> arg,
                         config |-> CapturedConfig(arg)])
  /\ UNCHANGED <<phase, heap, reqs, running>>

\* a variant of After: each variable published as soon as it is constructed
After_Interleaved(pc) ==
  CASE pc = "create1" -> "set1"
    [] pc = "set1" -> "create2"
    [] pc = "create2" -> "set2"
    [] pc = "set2" -> "next"
    [] pc = "next" -> "awaiting"
    [] pc = "destroy1" -> "destroy2"
    [] pc = "destroy2" -> "returned"

\* the order of the statements of a body: the statement that follows `pc`
After(pc) ==
  CASE pc = "create1" -> "create2"
    [] pc = "create2" -> "set1"
    [] pc = "set1" -> "set2"
    [] pc = "set2" -> "next"
    [] pc = "next" -> "awaiting"
    [] pc = "destroy1" -> "destroy2"
    [] pc = "destroy2" -> "returned"

\* a frame: one invocation of a middleware body, at the statement `pc`; svc and
\* cli are its two local variables, nexts counts its calls of next()
NewFrame(mw) == [mw |-> mw, pc |-> "create1", svc |-> Undefined, cli |-> Undefined,
                 err |-> "none", nexts |-> 0]

\* dispatch(i): the i-th middleware of the chain is invoked, or the handler is
Dispatch(q, i) ==
  IF i <= Len(q.chain)
  THEN [q EXCEPT !.frames = Append(@, NewFrame(q.chain[i]))]
  ELSE [q EXCEPT !.handler = "ready"]

\* app.request(path): a context is made and the chain is entered
Request(path) ==
  /\ running = 0
  /\ Len(reqs) < MaxRequests
  /\ phase' = "serving"
  /\ LET q == [path |-> path, chain |-> Chain(app, path), frames |-> << >>,
               var |-> EmptyContext, handler |-> "none", herr |-> "none",
               seen |-> EmptyContext, res |-> NoResponse]
     IN reqs' = Append(reqs, Dispatch(q, 1))
  /\ running' = Len(reqs) + 1
  /\ UNCHANGED <<app, heap>>

\* whether a frame's body has finished, by return or by throw
Finished(fr) == fr.pc \in {"returned", "threw"}

\* the frame of request r that is executing or will resume next: the innermost
\* invocation that has not finished (0 when there is none)
Top(r) ==
  LET live == {i \in 1..Len(reqs[r].frames) : ~Finished(reqs[r].frames[i])} IN
  IF live = {} THEN 0 ELSE CHOOSE i \in live : \A j \in live : j <= i

AtPc(r, pc) ==
  /\ r \in 1..Len(reqs)
  /\ Top(r) > 0
  /\ reqs[r].frames[Top(r)].pc = pc

TopBackend(r) == app[reqs[r].frames[Top(r)].mw].backend

\* a variant of TopConfig: the configuration kept in one module-level variable
\* that every factory call overwrites
TopConfig_Shared(r) == app[Len(app)].config

TopConfig(r) == app[reqs[r].frames[Top(r)].mw].config

\* a variant of LocalSvc: the variable declared in the factory, outside the body,
\* so that it holds what the latest invocation of the middleware constructed
LocalSvc_FactoryScoped(r) ==
  LET mine == {h \in 1..Len(heap) :
                 /\ heap[h].type.level = "service"
                 /\ reqs[heap[h].req].frames[heap[h].frame].mw
                      = reqs[r].frames[Top(r)].mw}
  IN IF mine = {} THEN Undefined ELSE CHOOSE h \in mine : \A g \in mine : g <= h

\* the body's first local variable (s3), as the running invocation reads it
LocalSvc(r) == reqs[r].frames[Top(r)].svc

\* the body's second local variable (s3Client), as the running invocation reads it
LocalCli(r) == reqs[r].frames[Top(r)].cli

\* a variant of Downstream: next() called without `await`, so that the body goes
\* on as though next() had resolved
Downstream_NotAwaited(q, i) == "resolved"

\* a variant of Downstream: next() raced against the cancellation of the
\* request, so that the await is left when the request is cancelled
Downstream_Raced(q, i) ==
  IF q.handler = "cancelled"
  THEN "resolved"
  ELSE IF i < Len(q.frames)
       THEN CASE q.frames[i + 1].pc = "returned" -> "resolved"
              [] q.frames[i + 1].pc = "threw" -> q.frames[i + 1].err
              [] OTHER -> "pending"
       ELSE CASE q.handler = "resolved" -> "resolved"
              [] q.handler = "rejected" -> q.herr
              [] OTHER -> "pending"

\* how the next() awaited by frame i of request q has settled: "pending",
\* "resolved", or the error it rejected with
Downstream(q, i) ==
  IF i < Len(q.frames)
  THEN CASE q.frames[i + 1].pc = "returned" -> "resolved"
         [] q.frames[i + 1].pc = "threw" -> q.frames[i + 1].err
         [] OTHER -> "pending"
  ELSE CASE q.handler = "resolved" -> "resolved"
         [] q.handler = "rejected" -> q.herr
         [] OTHER -> "pending"

\* what the caller of app.request receives once the chain has settled: the
\* context's response, or the error the outermost stage rejected with
Outcome(q) ==
  LET d == Downstream(q, 0) IN
  CASE d = "resolved" -> [kind |-> "response", res |-> q.res, err |-> "none"]
    [] d = "pending" -> [kind |-> "pending", res |-> NoResponse, err |-> "none"]
    [] OTHER -> [kind |-> "rejected", res |-> NoResponse, err |-> d]

\* const s3 = new S3(config)
CreateService(r) ==
  /\ running = r
  /\ AtPc(r, "create1")
  /\ heap' = Construct(heap, ServiceType(TopBackend(r)), TopConfig(r), r, Top(r))
  /\ reqs' = [reqs EXCEPT ![r].frames[Top(r)].svc =
                             NewObject(heap, ServiceType(TopBackend(r)), TopConfig(r)),
                          ![r].frames[Top(r)].pc = After("create1")]
  /\ UNCHANGED <<app, phase, running>>

\* const s3Client = new S3Client(config)
CreateClient(r) ==
  /\ running = r
  /\ AtPc(r, "create2")
  /\ heap' = Construct(heap, ClientType(TopBackend(r)), TopConfig(r), r, Top(r))
  /\ reqs' = [reqs EXCEPT ![r].frames[Top(r)].cli =
                             NewObject(heap, ClientType(TopBackend(r)), TopConfig(r)),
                          ![r].frames[Top(r)].pc = After("create2")]
  /\ UNCHANGED <<app, phase, running>>

\* c.set('S3', s3)
SetService(r) ==
  /\ running = r
  /\ AtPc(r, "set1")
  /\ reqs' = [reqs EXCEPT ![r].var = CtxSet(@, ServiceName(TopBackend(r)), LocalSvc(r)),
                          ![r].frames[Top(r)].pc = After("set1")]
  /\ UNCHANGED <<app, phase, heap, running>>

\* c.set('S3Client', s3Client)
SetClient(r) ==
  /\ running = r
  /\ AtPc(r, "set2")
  /\ reqs' = [reqs EXCEPT ![r].var = CtxSet(@, ClientName(TopBackend(r)), LocalCli(r)),
                          ![r].frames[Top(r)].pc = After("set2")]
  /\ UNCHANGED <<app, phase, heap, running>>

\* next(): the rest of the chain is entered and this frame awaits it
CallNext(r) ==
  /\ running = r
  /\ AtPc(r, "next")
  /\ reqs' = [reqs EXCEPT ![r] =
                Dispatch([reqs[r] EXCEPT !.frames[Top(r)].pc = After("next"),
                                         !.frames[Top(r)].nexts = @ + 1],
                         Top(r) + 1)]
  /\ UNCHANGED <<app, phase, heap, running>>

\* the route handler starts: it reads the context, then awaits its own work
HandlerEnter(r) ==
  /\ running = r
  /\ r \in 1..Len(reqs)
  /\ reqs[r].handler = "ready"
  /\ reqs' = [reqs EXCEPT ![r].seen = [n \in Names |-> CtxGet(reqs[r].var, n)],
                          ![r].handler = "running"]
  /\ running' = 0
  /\ UNCHANGED <<app, phase, heap>>

\* the route handler completes normally
HandlerResolve(r) ==
  /\ running = 0
  /\ r \in 1..Len(reqs)
  /\ reqs[r].handler = "running"
  /\ reqs' = [reqs EXCEPT ![r].handler = "resolved", ![r].res = HandlerResponse]
  /\ UNCHANGED <<app, phase, heap, running>>

\* the route handler fails with e
HandlerReject(r, e) ==
  /\ running = 0
  /\ r \in 1..Len(reqs)
  /\ reqs[r].handler = "running"
  /\ reqs' = [reqs EXCEPT ![r].handler = "rejected", ![r].herr = e]
  /\ UNCHANGED <<app, phase, heap, running>>

\* a variant of AfterAwait: `await next()` wrapped in a try/catch that swallows
\* the rejection and goes on
AfterAwait_Caught(fr, releases, d) ==
  [fr EXCEPT !.pc = IF releases THEN "destroy1" ELSE "returned"]

\* a variant of AfterAwait: `await next()` wrapped in a try/catch that throws an
\* error of the middleware's own in place of the one caught
AfterAwait_Wrapped(fr, releases, d) ==
  IF d = "resolved"
  THEN [fr EXCEPT !.pc = IF releases THEN "destroy1" ELSE "returned"]
  ELSE [fr EXCEPT !.pc = "threw", !.err = "e1"]

\* frame fr after its `await next()` settled with d: the statements after the
\* await come next when next() resolved (the body returns at once when there are
\* none); the await throws d when next() rejected, and nothing catches it
AfterAwait(fr, releases, d) ==
  IF d = "resolved"
  THEN [fr EXCEPT !.pc = IF releases THEN "destroy1" ELSE "returned"]
  ELSE [fr EXCEPT !.pc = "threw", !.err = d]

\* the continuation of `await next()` runs after next() resolved
ResumeResolved(r) ==
  /\ running = 0
  /\ AtPc(r, "awaiting")
  /\ Downstream(reqs[r], Top(r)) = "resolved"
  /\ LET fr == AfterAwait(reqs[r].frames[Top(r)], Releases(TopBackend(r)), "resolved")
     IN /\ reqs' = [reqs EXCEPT ![r].frames[Top(r)] = fr]
        /\ running' = IF Finished(fr) THEN 0 ELSE r
  /\ UNCHANGED <<app, phase, heap>>

\* the continuation of `await next()` runs after next() rejected
ResumeRejected(r) ==
  /\ running = 0
  /\ AtPc(r, "awaiting")
  /\ Downstream(reqs[r], Top(r)) \in Errors
  /\ LET fr == AfterAwait(reqs[r].frames[Top(r)], Releases(TopBackend(r)),
                          Downstream(reqs[r], Top(r)))
     IN /\ reqs' = [reqs EXCEPT ![r].frames[Top(r)] = fr]
        /\ running' = IF Finished(fr) THEN 0 ELSE r
  /\ UNCHANGED <<app, phase, heap>>

\* s3.destroy()
DestroyService(r) ==
  /\ running = r
  /\ AtPc(r, "destroy1")
  /\ heap' = Destroy(heap, LocalSvc(r))
  /\ reqs' = [reqs EXCEPT ![r].frames[Top(r)].pc = After("destroy1")]
  /\ UNCHANGED <<app, phase, running>>

\* s3Client.destroy(), and the body returns
DestroyClient(r) ==
  /\ running = r
  /\ AtPc(r, "destroy2")
  /\ heap' = Destroy(heap, LocalCli(r))
  /\ reqs' = [reqs EXCEPT ![r].frames[Top(r)].pc = After("destroy2")]
  /\ running' = 0
  /\ UNCHANGED <<app, phase>>

Next ==
  \/ \E pattern \in Patterns, b \in Backends, arg \in ConfigArgs : Use(pattern, b, arg)
  \/ \E path \in Paths : Request(path)
  \/ \E r \in 1..MaxRequests : CreateService(r)
  \/ \E r \in 1..MaxRequests : CreateClient(r)
  \/ \E r \in 1..MaxRequests : SetService(r)
  \/ \E r \in 1..MaxRequests : SetClient(r)
  \/ \E r \in 1..MaxRequests : CallNext(r)
  \/ \E r \in 1..MaxRequests : HandlerEnter(r)
  \/ \E r \in 1..MaxRequests : HandlerResolve(r)
  \/ \E r \in 1..MaxRequests, e \in Errors : HandlerReject(r, e)
  \/ \E r \in 1..MaxRequests : ResumeResolved(r)
  \/ \E r \in 1..MaxRequests : ResumeRejected(r)
  \/ \E r \in 1..MaxRequests : DestroyService(r)
  \/ \E r \in 1..MaxRequests : DestroyClient(r)

Spec == Init /\ [][Next]_vars

----------------------------------------------------------------------------
(* Constructors that throw. `new S3(config)` and `new S3Client(config)` run SDK *)
(* code that may throw (a configuration it rejects eagerly); the body has no    *)
(* try/catch, so the throw ends the invocation at that statement.               *)

\* const s3 = new S3(config) throws e
CreateServiceThrows(r, e) ==
  /\ running = r
  /\ AtPc(r, "create1")
  /\ reqs' = [reqs EXCEPT ![r].frames[Top(r)].pc = "threw",
                          ![r].frames[Top(r)].err = e]
  /\ running' = 0
  /\ UNCHANGED <<app, phase, heap>>

\* const s3Client = new S3Client(config) throws e
CreateClientThrows(r, e) ==
  /\ running = r
  /\ AtPc(r, "create2")
  /\ reqs' = [reqs EXCEPT ![r].frames[Top(r)].pc = "threw",
                          ![r].frames[Top(r)].err = e]
  /\ running' = 0
  /\ UNCHANGED <<app, phase, heap>>

NextFaults ==
  \/ Next
  \/ \E r \in 1..MaxRequests, e \in Errors : CreateServiceThrows(r, e)
  \/ \E r \in 1..MaxRequests, e \in Errors : CreateClientThrows(r, e)

SpecFaults == Init /\ [][NextFaults]_vars

----------------------------------------------------------------------------
(* Cancelled requests. The pipeline around the chain may give a request up    *)
(* (a timeout, a client that went away) while the chain is suspended; the     *)
(* body takes no signal and registers no hook, so all a cancellation does is  *)
(* that the promise of `await next()` never settles.                          *)

\* the request is cancelled while its handler is suspended
Cancel(r) ==
  /\ running = 0
  /\ r \in 1..Len(reqs)
  /\ reqs[r].handler = "running"
  /\ reqs' = [reqs EXCEPT ![r].handler = "cancelled"]
  /\ UNCHANGED <<app, phase, heap, running>>

NextCancel ==
  \/ Next
  \/ \E r \in 1..MaxRequests : Cancel(r)

SpecCancel == Init /\ [][NextCancel]_vars

----------------------------------------------------------------------------
(* Releases that throw. destroy() is a synchronous call into the SDK; the two *)
(* calls are consecutive statements outside any try/catch, so a throw from    *)
(* one of them ends the invocation at that statement.                         *)

\* a variant of ServiceDestroyThrew: the first destroy() inside a try/catch
\* that swallows the error, so that the second destroy() still runs
ServiceDestroyThrew_Guarded(fr, e) == [fr EXCEPT !.pc = "destroy2"]

\* frame fr after its s3.destroy() threw e: the body is left at once
ServiceDestroyThrew(fr, e) == [fr EXCEPT !.pc = "threw", !.err = e]

\* s3.destroy() throws e
DestroyServiceThrows(r, e) ==
  /\ running = r
  /\ AtPc(r, "destroy1")
  /\ LET fr == ServiceDestroyThrew(reqs[r].frames[Top(r)], e)
     IN /\ reqs' = [reqs EXCEPT ![r].frames[Top(r)] = fr]
        /\ running' = IF Finished(fr) THEN 0 ELSE r
  /\ UNCHANGED <<app, phase, heap>>

\* s3Client.destroy() throws e
DestroyClientThrows(r, e) ==
  /\ running = r
  /\ AtPc(r, "destroy2")
  /\ reqs' = [reqs EXCEPT ![r].frames[Top(r)].pc = "threw",
                          ![r].frames[Top(r)].err = e]
  /\ running' = 0
  /\ UNCHANGED <<app, phase, heap>>

NextReleaseFaults ==
  \/ Next
  \/ \E r \in 1..MaxRequests, e \in Errors : DestroyServiceThrows(r, e)
  \/ \E r \in 1..MaxRequests, e \in Errors : DestroyClientThrows(r, e)

SpecReleaseFaults == Init /\ [][NextReleaseFaults]_vars

----------------------------------------------------------------------------
(* What the properties below are stated in *)

ReqIds == 1..Len(reqs)

FrameIds(r) == 1..Len(reqs[r].frames)

\* the Env variable declared to hold the friendly handle of backend b
SvcSlot(b) == CHOOSE n \in Names : EnvVariables[n] = [class |-> b, level |-> "service"]

\* the Env variable declared to hold the low-level handle of backend b
CliSlot(b) == CHOOSE n \in Names : EnvVariables[n] = [class |-> b, level |-> "client"]

\* registration m covers a request to `path`
Attached(m, path) == app[m].pattern = "*" \/ app[m].pattern = path

\* the registrations that cover a request to `path`
AttachedTo(path) == {m \in 1..Len(app) : Attached(m, path)}

\* the body of the frame has executed both c.set statements
Published(fr) == fr.pc \notin {"create1", "create2", "set1", "set2"}

\* the route handler of the request has been entered
HandlerRan(q) == q.handler \in {"running", "resolved", "rejected"}

\* the configuration the factory call of registration a was given
GivenConfig(a) == IF a.arg.given THEN a.arg.config ELSE [region |-> "unset"]

\* the backends of the frames of a request are pairwise different
DistinctBackends(q) ==
  \A i, j \in 1..Len(q.chain) :
    i # j => app[q.chain[i]].backend # app[q.chain[j]].backend

----------------------------------------------------------------------------
(* C1: for each of the three middlewares and every configuration (omitted and *)
(* empty included), whenever a stage downstream of the middleware runs in a    *)
(* request its registration covers (a later middleware, or the route handler), *)
(* the context holds a non-null handle under both of the middleware's names.   *)
C1_BothNamesPopulated ==
  \A r \in ReqIds :
    LET q == reqs[r] IN
    \A m \in AttachedTo(q.path) :
      LET b == app[m].backend IN
      /\ HandlerRan(q) =>
            /\ q.seen[SvcSlot(b)] # Undefined
            /\ q.seen[CliSlot(b)] # Undefined
      /\ (HandlerRan(q) \/ \E i \in FrameIds(r) : q.frames[i].mw > m) =>
            /\ CtxGet(q.var, SvcSlot(b)) # Undefined
            /\ CtxGet(q.var, CliSlot(b)) # Undefined

\* a handler has run behind a middleware made with no argument and one made
\* with `{}`, and found all their names set
C1_Witness ==
  \E r \in ReqIds :
    \E m1, m2 \in AttachedTo(reqs[r].path) :
      /\ ~app[m1].arg.given
      /\ app[m2].arg = Given(EmptyConfig)
      /\ app[m1].backend # app[m2].backend
      /\ HandlerRan(reqs[r])
      /\ \A m \in {m1, m2} :
           /\ reqs[r].seen[SvcSlot(app[m].backend)] # Undefined
           /\ reqs[r].seen[CliSlot(app[m].backend)] # Undefined

----------------------------------------------------------------------------
(* C2: when the factory is given a configuration with region R, both handles *)
(* of every invocation of the middleware are constructed from that one       *)
(* configuration, and both report region R.                                  *)
C2_BothHandlesReportRegion ==
  \A r \in ReqIds :
    \A i \in FrameIds(r) :
      LET fr == reqs[r].frames[i]
          a == app[fr.mw]
      IN (a.arg.given /\ a.arg.config.region \in Regions) =>
           /\ fr.svc # Undefined => RegionOf(heap, fr.svc) = a.arg.config.region
           /\ fr.cli # Undefined => RegionOf(heap, fr.cli) = a.arg.config.region
           /\ (fr.svc # Undefined /\ fr.cli # Undefined) =>
                 heap[fr.svc].config = heap[fr.cli].config

\* a handler has read both handles of a middleware made with a region, and both
\* report it
C2_Witness ==
  \E r \in ReqIds :
    \E i \in FrameIds(r) :
      LET q == reqs[r]
          fr == q.frames[i]
          a == app[fr.mw]
      IN /\ a.arg = Given([region |-> "ap-northeast-1"])
         /\ HandlerRan(q)
         /\ q.seen[SvcSlot(a.backend)] = fr.svc
         /\ q.seen[CliSlot(a.backend)] = fr.cli
         /\ RegionOf(heap, q.seen[SvcSlot(a.backend)]) = "ap-northeast-1"
         /\ RegionOf(heap, q.seen[CliSlot(a.backend)]) = "ap-northeast-1"

----------------------------------------------------------------------------
(* C3: a name always holds a handle of the type its Env declares (the service *)
(* name the friendly handle, the ...Client name the low-level one), and the   *)
(* two names of a backend never hold the same object.                         *)
C3_NamesNeverSwappedOrAliased ==
  \A r \in ReqIds :
    LET q == reqs[r] IN
    /\ \A n \in Names :
         /\ q.var[n] # Undefined => heap[q.var[n]].type = EnvVariables[n]
         /\ q.seen[n] # Undefined => heap[q.seen[n]].type = EnvVariables[n]
    /\ \A b \in Backends :
         /\ q.var[SvcSlot(b)] # Undefined => q.var[SvcSlot(b)] # q.var[CliSlot(b)]
         /\ q.seen[SvcSlot(b)] # Undefined => q.seen[SvcSlot(b)] # q.seen[CliSlot(b)]

\* a handler has read both names of a backend: two objects, one of each type
C3_Witness ==
  \E r \in ReqIds :
    \E b \in Backends :
      LET q == reqs[r] IN
      /\ HandlerRan(q)
      /\ q.seen[SvcSlot(b)] # Undefined
      /\ q.seen[CliSlot(b)] # Undefined
      /\ q.seen[SvcSlot(b)] # q.seen[CliSlot(b)]
      /\ heap[q.seen[SvcSlot(b)]].type.level = "service"
      /\ heap[q.seen[CliSlot(b)]].type.level = "client"

----------------------------------------------------------------------------
(* C4: when the middlewares attached to a route are for different backends,  *)
(* in whatever order they were registered, each name keeps the handle its    *)
(* own middleware published from the moment it is published: no step of      *)
(* another middleware removes or replaces it, and the handler finds all 2N   *)
(* names populated at once.                                                  *)
C4_OtherBackendsEntriesKept ==
  \A r \in ReqIds :
    LET q == reqs[r] IN
    DistinctBackends(q) =>
      /\ \A i \in FrameIds(r) :
           LET fr == q.frames[i]
               b == app[fr.mw].backend
           IN Published(fr) =>
                /\ fr.svc # Undefined /\ q.var[SvcSlot(b)] = fr.svc
                /\ fr.cli # Undefined /\ q.var[CliSlot(b)] = fr.cli
                /\ HandlerRan(q) =>
                      /\ q.seen[SvcSlot(b)] = fr.svc
                      /\ q.seen[CliSlot(b)] = fr.cli
      /\ HandlerRan(q) =>
           Cardinality({n \in Names : q.seen[n] # Undefined}) = 2 * Len(q.chain)

\* a handler behind two middlewares of different backends has found four names
C4_Witness ==
  \E r \in ReqIds :
    LET q == reqs[r] IN
    /\ Len(q.chain) = 2
    /\ DistinctBackends(q)
    /\ HandlerRan(q)
    /\ Cardinality({n \in Names : q.seen[n] # Undefined}) = 4

----------------------------------------------------------------------------
(* C5: every request gets handles constructed for it: a handle found in one  *)
(* request's context was constructed by that request, is in no other         *)
(* request's context, and no object is handed to two invocations.            *)
C5_FreshHandlesPerRequest ==
  /\ \A r \in ReqIds :
       \A n \in Names :
         LET q == reqs[r] IN
         /\ q.var[n] # Undefined => heap[q.var[n]].req = r
         /\ q.seen[n] # Undefined => heap[q.seen[n]].req = r
         /\ \A r2 \in ReqIds \ {r} :
              \A n2 \in Names :
                q.var[n] # Undefined => q.var[n] # reqs[r2].var[n2]
  /\ \A r1, r2 \in ReqIds :
       \A i1 \in FrameIds(r1), i2 \in FrameIds(r2) :
         LET f1 == reqs[r1].frames[i1]
             f2 == reqs[r2].frames[i2]
         IN /\ (f1.svc # Undefined /\ f1.cli # Undefined) => f1.svc # f1.cli
            /\ <<r1, i1>> # <<r2, i2>> =>
                  /\ f1.svc # Undefined => f1.svc \notin {f2.svc, f2.cli}
                  /\ f1.cli # Undefined => f1.cli \notin {f2.svc, f2.cli}

\* two requests through the same registration are in their handlers at the same
\* time, with different objects under the same names
C5_Witness ==
  \E r1, r2 \in ReqIds :
    \E m \in 1..Len(app) :
      /\ r1 # r2
      /\ reqs[r1].handler = "running"
      /\ reqs[r2].handler = "running"
      /\ m \in AttachedTo(reqs[r1].path) \cap AttachedTo(reqs[r2].path)
      /\ reqs[r1].seen[SvcSlot(app[m].backend)] # Undefined
      /\ reqs[r2].seen[SvcSlot(app[m].backend)] # Undefined
      /\ reqs[r1].seen[SvcSlot(app[m].backend)] # reqs[r2].seen[SvcSlot(app[m].backend)]

----------------------------------------------------------------------------
(* C6: in the S3 and Secrets Manager middlewares, when the next() an          *)
(* invocation awaited has resolved, the invocation does not finish before it  *)
(* has called destroy() on the friendly handle and on the low-level handle it *)
(* created; and its continuation is ready to run as soon as the thread is     *)
(* free.                                                                      *)
C6_ReleasedBeforeFinishing ==
  \A r \in ReqIds :
    \A i \in FrameIds(r) :
      LET q == reqs[r]
          fr == q.frames[i]
      IN (app[fr.mw].backend \in {"S3", "SecretsManager"}
            /\ Downstream(q, i) = "resolved") =>
           /\ Finished(fr) =>
                 /\ fr.pc = "returned"
                 /\ heap[fr.svc].destroyed >= 1
                 /\ heap[fr.cli].destroyed >= 1
           /\ (fr.pc = "awaiting" /\ running = 0) => ENABLED ResumeResolved(r)
           /\ fr.pc \in {"awaiting", "destroy1", "destroy2", "returned"}
           /\ fr.pc = "destroy1" => running = r /\ ENABLED DestroyService(r)
           /\ fr.pc = "destroy2" =>
                 /\ running = r
                 /\ heap[fr.svc].destroyed >= 1
                 /\ ENABLED DestroyClient(r)

\* an S3 and a Secrets Manager invocation of one request have both returned
\* with their two handles destroyed
C6_Witness ==
  \E r \in ReqIds :
    \E i, j \in FrameIds(r) :
      LET q == reqs[r] IN
      /\ app[q.frames[i].mw].backend = "S3"
      /\ app[q.frames[j].mw].backend = "SecretsManager"
      /\ q.handler = "resolved"
      /\ \A k \in {i, j} :
           /\ q.frames[k].pc = "returned"
           /\ heap[q.frames[k].svc].destroyed >= 1
           /\ heap[q.frames[k].cli].destroyed >= 1

----------------------------------------------------------------------------
(* C7: the DynamoDB middleware destroys the DynamoDB and DynamoDBClient       *)
(* instances it created for a request once next() has resolved: an invocation *)
(* that returned has called destroy() on both.                                *)
C7_DynamoDBDestroyed ==
  \A r \in ReqIds :
    \A i \in FrameIds(r) :
      LET fr == reqs[r].frames[i] IN
      (app[fr.mw].backend = "DynamoDB" /\ fr.pc = "returned") =>
        /\ heap[fr.svc].destroyed >= 1
        /\ heap[fr.cli].destroyed >= 1

----------------------------------------------------------------------------
(* C8: a middleware never catches, wraps or suppresses a downstream error: an *)
(* invocation whose next() rejected with e ends by throwing that same e (the  *)
(* e the handler failed with), and an invocation whose next() resolved throws *)
(* nothing.                                                                   *)
C8_DownstreamErrorPropagates ==
  \A r \in ReqIds :
    \A i \in FrameIds(r) :
      LET q == reqs[r]
          fr == q.frames[i]
          d == Downstream(q, i)
      IN /\ (d \in Errors /\ Finished(fr)) => fr.pc = "threw" /\ fr.err = d
         /\ (d \in Errors /\ ~Finished(fr)) => fr.pc = "awaiting"
         /\ fr.pc = "threw" =>
               /\ d \in Errors
               /\ fr.err = d
               /\ q.handler = "rejected"
               /\ fr.err = q.herr
         /\ d = "resolved" => fr.pc # "threw" /\ fr.err = "none"
         /\ d = "pending" => ~Finished(fr) /\ fr.err = "none"

\* a handler failed with e2, and both middlewares of its route have thrown e2
C8_Witness ==
  \E r \in ReqIds :
    LET q == reqs[r] IN
    /\ Len(q.frames) = 2
    /\ q.handler = "rejected"
    /\ q.herr = "e2"
    /\ \A i \in 1..2 : q.frames[i].pc = "threw" /\ q.frames[i].err = "e2"

----------------------------------------------------------------------------
(* C9: in a request whose route has no middleware of a backend attached,      *)
(* c.get of either name of that backend yields undefined - it raises nothing, *)
(* and it never yields a handle made for another request or by another        *)
(* middleware.                                                                *)
C9_UnattachedNamesAbsent ==
  \A r \in ReqIds :
    \A b \in Backends :
      LET q == reqs[r] IN
      (\A m \in AttachedTo(q.path) : app[m].backend # b) =>
        /\ CtxGet(q.var, SvcSlot(b)) = Undefined
        /\ CtxGet(q.var, CliSlot(b)) = Undefined
        /\ q.seen[SvcSlot(b)] = Undefined
        /\ q.seen[CliSlot(b)] = Undefined

\* two handlers have run at the same time: one on a route with a middleware of
\* backend b and another middleware, which found b's handle; one on a route with
\* only the other middleware, which found the other's handle and undefined for b
C9_Witness ==
  \E r1, r2 \in ReqIds :
    \E b \in Backends :
      /\ reqs[r1].handler = "running"
      /\ reqs[r2].handler = "running"
      /\ reqs[r1].seen[SvcSlot(b)] # Undefined
      /\ \A m \in AttachedTo(reqs[r2].path) : app[m].backend # b
      /\ AttachedTo(reqs[r2].path) # {}
      /\ reqs[r2].seen[SvcSlot(b)] = Undefined
      /\ reqs[r2].seen[CliSlot(b)] = Undefined
      /\ \E n \in Names : reqs[r2].seen[n] # Undefined

----------------------------------------------------------------------------
(* C10: middlewares from separate factory calls are independent: in every     *)
(* request, however requests interleave, each invocation is an invocation of  *)
(* the registration at its place in the route's chain, and the handles it     *)
(* constructs and publishes carry the configuration given to that factory     *)
(* call.                                                                      *)
C10_OwnFactoryConfiguration ==
  \A r \in ReqIds :
    LET q == reqs[r] IN
    /\ Len(q.frames) <= Len(q.chain)
    /\ \A i \in FrameIds(r) :
         LET fr == q.frames[i]
             a == app[fr.mw]
         IN /\ fr.mw = q.chain[i]
            /\ Attached(fr.mw, q.path)
            /\ fr.svc # Undefined => heap[fr.svc].config = GivenConfig(a)
            /\ fr.cli # Undefined => heap[fr.cli].config = GivenConfig(a)
            /\ \A n \in {SvcSlot(a.backend), CliSlot(a.backend)} :
                 (q.var[n] # Undefined /\ q.var[n] \in {fr.svc, fr.cli}) =>
                   heap[q.var[n]].config = GivenConfig(a)

\* requests to two routes served by middlewares of differently configured
\* factory calls are in their handlers at the same time, each with handles of
\* its own middleware's configuration
C10_Witness ==
  \E r1, r2 \in ReqIds :
    \E n1, n2 \in Names :
      /\ reqs[r1].path # reqs[r2].path
      /\ reqs[r1].handler = "running"
      /\ reqs[r2].handler = "running"
      /\ reqs[r1].seen[n1] # Undefined
      /\ reqs[r2].seen[n2] # Undefined
      /\ heap[reqs[r1].seen[n1]].config # heap[reqs[r2].seen[n2]].config

----------------------------------------------------------------------------
(* C11: a middleware's effect on the context is additive only: the first      *)
(* c.set of an invocation writes the invocation's friendly handle under its   *)
(* own service name, the second writes its low-level handle under its own     *)
(* ...Client name, and every other entry keeps its value; no other step of    *)
(* the body - before next(), after it, or during release - changes any entry  *)
(* of any context.                                                            *)
C11_AdditiveOnly ==
  [][\A r \in ReqIds :
       LET q == reqs[r]
           setting == running = r /\ Top(r) > 0
                        /\ q.frames[Top(r)].pc \in {"set1", "set2"}
       IN /\ ~setting => reqs'[r].var = q.var
          /\ setting =>
               LET fr == q.frames[Top(r)]
                   b == app[fr.mw].backend
               IN /\ fr.pc = "set1" =>
                       reqs'[r].var = [q.var EXCEPT ![SvcSlot(b)] = fr.svc]
                  /\ fr.pc = "set2" =>
                       reqs'[r].var = [q.var EXCEPT ![CliSlot(b)] = fr.cli]
                  /\ fr.svc # Undefined
                  /\ fr.pc = "set2" => fr.cli # Undefined
    ]_vars

\* a request behind two middlewares of different backends has been served to
\* the end, release included, and its context holds the four handles, each under
\* its own name
C11_Witness ==
  \E r \in ReqIds :
    LET q == reqs[r] IN
    /\ Len(q.frames) = 2
    /\ DistinctBackends(q)
    /\ \E i \in 1..2 : app[q.frames[i].mw].backend = "S3"
    /\ \A i \in 1..2 :
         /\ q.frames[i].pc = "returned"
         /\ q.var[SvcSlot(app[q.frames[i].mw].backend)] = q.frames[i].svc
         /\ q.var[CliSlot(app[q.frames[i].mw].backend)] = q.frames[i].cli
    /\ Cardinality({n \in Names : q.var[n] # Undefined}) = 4

----------------------------------------------------------------------------
(* C12: a middleware does not alter the outcome of the request: whatever      *)
(* middlewares the route has and whatever their configuration, the caller of  *)
(* app.request receives what the route handler produced - its response,       *)
(* status and body, when it answered, its error when it failed - which is     *)
(* what a route with no middleware gives; the context's response is written   *)
(* by the handler alone.                                                      *)
C12_OutcomeIsTheHandlers ==
  \A r \in ReqIds :
    LET q == reqs[r]
        o == Outcome(q)
        settled == \A i \in FrameIds(r) : Finished(q.frames[i])
    IN /\ q.res = IF q.handler = "resolved"
                  THEN [status |-> 200, body |-> "OK"]
                  ELSE [status |-> 404, body |-> "404 Not Found"]
       /\ o.kind = "response" =>
            /\ q.handler = "resolved"
            /\ o.res = [status |-> 200, body |-> "OK"]
       /\ o.kind = "rejected" => q.handler = "rejected" /\ o.err = q.herr
       /\ (settled /\ q.handler = "resolved") => o.kind = "response"
       /\ (settled /\ q.handler = "rejected") => o.kind = "rejected"
       /\ o.kind = "pending" => ~settled \/ q.handler \notin {"resolved", "rejected"}

\* a request to a route with no middleware and a request to a route behind a
\* middleware made with a region have both been answered 200 'OK', and a route
\* behind a middleware made with no argument exists too
C12_Witness ==
  \E r1, r2 \in ReqIds :
    /\ Len(reqs[r1].chain) = 0
    /\ Outcome(reqs[r1]) = [kind |-> "response", err |-> "none",
                            res |-> [status |-> 200, body |-> "OK"]]
    /\ \E i \in FrameIds(r2) :
         app[reqs[r2].frames[i].mw].arg = Given([region |-> "ap-northeast-1"])
    /\ Outcome(reqs[r2]) = Outcome(reqs[r1])

----------------------------------------------------------------------------
----------------------------------------------------------------------------
(* C14: if the downstream stage of a request raises (the awaited next()       *)
(* rejects), the S3 and Secrets Manager invocations of that request never     *)
(* reach their destroy() statements: each ends by throwing, its two handles   *)
(* undestroyed, and stays so for ever.                                        *)
C14_NoReleaseOnError ==
  /\ [](\A r \in ReqIds :
          \A i \in FrameIds(r) :
            LET q == reqs[r]
                fr == q.frames[i]
            IN (app[fr.mw].backend \in {"S3", "SecretsManager"}
                  /\ (q.handler = "rejected" \/ Downstream(q, i) \in Errors)) =>
                 /\ fr.pc \in {"awaiting", "threw"}
                 /\ heap[fr.svc].destroyed = 0
                 /\ heap[fr.cli].destroyed = 0)
  /\ [][\A r \in ReqIds :
          \A i \in FrameIds(r) :
            LET fr == reqs[r].frames[i] IN
            fr.pc = "threw" =>
              /\ reqs'[r].frames[i] = fr
              /\ heap'[fr.svc] = heap[fr.svc]
              /\ heap'[fr.cli] = heap[fr.cli]
       ]_vars

\* a handler failed behind an S3 and a Secrets Manager middleware: both
\* invocations have thrown and none of the four handles is destroyed
C14_Witness ==
  \E r \in ReqIds :
    LET q == reqs[r] IN
    /\ q.handler = "rejected"
    /\ Len(q.frames) = 2
    /\ {app[q.frames[i].mw].backend : i \in 1..2} = {"S3", "SecretsManager"}
    /\ \A i \in 1..2 :
         /\ q.frames[i].pc = "threw"
         /\ heap[q.frames[i].svc].destroyed = 0
         /\ heap[q.frames[i].cli].destroyed = 0

----------------------------------------------------------------------------
(* C15: within one invocation the steps are strictly ordered: both handles    *)
(* are constructed, then both are published, then next() is called, exactly   *)
(* once; the invocation goes on only when every stage downstream of it (each  *)
(* later middleware and the route handler) has completed, so none of its      *)
(* handles is destroyed while a downstream stage is still running.            *)
C15_StepsStrictlyOrdered ==
  \A r \in ReqIds :
    \A i \in FrameIds(r) :
      LET q == reqs[r]
          fr == q.frames[i]
          b == app[fr.mw].backend
          downstreamDone ==
            /\ \A j \in FrameIds(r) : j > i => Finished(q.frames[j])
            /\ q.handler \in {"resolved", "rejected"}
          entered == IF i < Len(q.chain) THEN Len(q.frames) > i ELSE q.handler # "none"
      IN /\ fr.svc # Undefined <=> fr.pc # "create1"
         /\ fr.cli # Undefined <=> fr.pc \notin {"create1", "create2"}
         /\ fr.pc \in {"create1", "create2", "set1"} =>
              \A n \in Names : q.var[n] = Undefined \/ q.var[n] \notin {fr.svc, fr.cli}
         /\ fr.pc = "set2" =>
              /\ q.var[SvcSlot(b)] = fr.svc
              /\ \A n \in Names : q.var[n] # fr.cli
         /\ fr.nexts = IF fr.pc \in {"create1", "create2", "set1", "set2", "next"}
                       THEN 0 ELSE 1
         /\ entered <=> fr.nexts = 1
         /\ fr.pc \in {"destroy1", "destroy2", "returned", "threw"} => downstreamDone
         /\ (fr.svc # Undefined /\ heap[fr.svc].destroyed > 0) => downstreamDone
         /\ (fr.cli # Undefined /\ heap[fr.cli].destroyed > 0) => downstreamDone

\* behind two middlewares, the handler and the inner invocation have completed
\* and the outer one, an S3 invocation that called next() once, is between its
\* two destroy() statements
C15_Witness ==
  \E r \in ReqIds :
    LET q == reqs[r] IN
    /\ Len(q.frames) = 2
    /\ app[q.frames[1].mw].backend = "S3"
    /\ q.handler = "resolved"
    /\ q.frames[2].pc = "returned"
    /\ q.frames[1].pc = "destroy2"
    /\ q.frames[1].nexts = 1
    /\ heap[q.frames[1].svc].destroyed = 1
    /\ heap[q.frames[1].cli].destroyed = 0

----------------------------------------------------------------------------
(* C16: when the construction of either handle throws, the error leaves the   *)
(* invocation uncaught (the stage that awaits it, once resumed, has thrown    *)
(* the same error), next() has not been called (nothing downstream was        *)
(* entered), and the context is as the invocation found it: no name holds a   *)
(* handle of the invocation, also when the first construction had succeeded,  *)
(* and no construction step writes a context variable.                        *)
C16_ConstructionFailure ==
  /\ [](\A r \in ReqIds :
          \A i \in FrameIds(r) :
            LET q == reqs[r]
                fr == q.frames[i]
            IN (fr.pc = "threw" /\ fr.nexts = 0) =>
                 /\ fr.err \in {"e1", "e2"}
                 /\ fr.cli = Undefined
                 /\ (i > 1 /\ q.frames[i - 1].pc \in {"returned", "threw"}) =>
                      /\ q.frames[i - 1].pc = "threw"
                      /\ q.frames[i - 1].err = fr.err
                 /\ Len(q.frames) = i
                 /\ q.handler = "none"
                 /\ \A n \in Names :
                      \/ q.var[n] = Undefined
                      \/ \E j \in 1..(i - 1) : q.var[n] \in {q.frames[j].svc, q.frames[j].cli}
                 /\ \A h \in 1..Len(heap) :
                      (heap[h].req = r /\ heap[h].frame = i) =>
                        \A n \in Names : q.var[n] # h)
  /\ [][\A r \in ReqIds :
          \A i \in FrameIds(r) :
            (reqs[r].frames[i].pc \in {"create1", "create2"}
               /\ reqs'[r].frames[i] # reqs[r].frames[i])
              => reqs'[r].var = reqs[r].var]_vars

\* the first construction of an S3 invocation succeeded and the second threw:
\* the service object exists, and no context variable is set
C16_Witness ==
  \E r \in ReqIds :
    LET q == reqs[r] IN
    /\ Len(q.frames) = 1
    /\ app[q.frames[1].mw].backend = "S3"
    /\ q.frames[1].pc = "threw"
    /\ q.frames[1].nexts = 0
    /\ q.frames[1].svc # Undefined
    /\ heap[q.frames[1].svc].type = [class |-> "S3", level |-> "service"]
    /\ \A n \in Names : q.var[n] = Undefined

----------------------------------------------------------------------------
(* C17: a context variable that is set is never cleared again within its      *)
(* request; so once an S3 or Secrets Manager invocation has run its release   *)
(* step the context still maps both of its names to handles, and these        *)
(* handles (its own, unless a later invocation of the same adapter replaced   *)
(* them) are destroyed ones: that is what c.get returns to a stage that runs  *)
(* after the invocation has resumed.                                          *)
C17_ReleasedHandlesStayPublished ==
  /\ [](\A r \in ReqIds :
          \A i \in FrameIds(r) :
            LET q == reqs[r]
                fr == q.frames[i]
                b == app[fr.mw].backend
                last == \A j \in FrameIds(r) : j > i => app[q.frames[j].mw].backend # b
            IN (b \in {"S3", "SecretsManager"} /\ fr.pc = "returned") =>
                 /\ CtxGet(q.var, SvcSlot(b)) # Undefined
                 /\ CtxGet(q.var, CliSlot(b)) # Undefined
                 /\ heap[CtxGet(q.var, SvcSlot(b))].destroyed > 0
                 /\ heap[CtxGet(q.var, CliSlot(b))].destroyed > 0
                 /\ last => /\ CtxGet(q.var, SvcSlot(b)) = fr.svc
                            /\ CtxGet(q.var, CliSlot(b)) = fr.cli)
  /\ [][\A r \in ReqIds :
          \A n \in Names :
            reqs[r].var[n] # Undefined => reqs'[r].var[n] # Undefined]_vars

\* a DynamoDB middleware registered before an S3 one has resumed after its own
\* next(): the S3 invocation has returned, and c.get('S3') and c.get('S3Client')
\* give the two handles that invocation destroyed
C17_Witness ==
  \E r \in ReqIds :
    LET q == reqs[r] IN
    /\ Len(q.frames) = 2
    /\ app[q.frames[1].mw].backend = "DynamoDB"
    /\ app[q.frames[2].mw].backend = "S3"
    /\ q.frames[2].pc = "returned"
    /\ q.frames[1].pc = "returned"
    /\ CtxGet(q.var, "S3") = q.frames[2].svc
    /\ CtxGet(q.var, "S3Client") = q.frames[2].cli
    /\ heap[CtxGet(q.var, "S3")].destroyed = 1
    /\ heap[CtxGet(q.var, "S3Client")].destroyed = 1

----------------------------------------------------------------------------
(* C18: when a request is cancelled while its invocations are suspended in    *)
(* next(), and next() never settles, the release step never runs for it: all  *)
(* its invocations stay at the await with their handles not destroyed, and    *)
(* nothing about the request changes any more. There is no other path to a    *)
(* release: a handle is destroyed only in a request whose handler completed.  *)
C18_NoReleaseAfterCancel ==
  /\ [](\A r \in ReqIds :
          LET q == reqs[r] IN
          q.handler = "cancelled" =>
            /\ Len(q.frames) = Len(q.chain)
            /\ \A i \in FrameIds(r) :
                 /\ q.frames[i].pc = "awaiting"
                 /\ heap[q.frames[i].svc].destroyed = 0
                 /\ heap[q.frames[i].cli].destroyed = 0)
  /\ [](\A h \in 1..Len(heap) :
          heap[h].destroyed > 0 => reqs[heap[h].req].handler = "resolved")
  /\ [][\A r \in ReqIds :
          reqs[r].handler = "cancelled" =>
            /\ reqs'[r] = reqs[r]
            /\ \A h \in 1..Len(heap) : heap[h].req = r => heap'[h] = heap[h]]_vars

\* a request behind an S3 middleware was cancelled; a later request through the
\* same middleware has since been served and its handles released, while the
\* cancelled request's invocation is still at its await with both handles live
C18_Witness ==
  \E r1, r2 \in ReqIds :
    LET q1 == reqs[r1]
        q2 == reqs[r2]
    IN /\ r1 < r2
       /\ q1.handler = "cancelled"
       /\ Len(q1.frames) = 1
       /\ app[q1.frames[1].mw].backend = "S3"
       /\ q1.frames[1].pc = "awaiting"
       /\ heap[q1.frames[1].svc].destroyed = 0
       /\ heap[q1.frames[1].cli].destroyed = 0
       /\ q2.chain = q1.chain
       /\ q2.handler = "resolved"
       /\ q2.frames[1].pc = "returned"
       /\ heap[q2.frames[1].svc].destroyed = 1

----------------------------------------------------------------------------
(* C19: the configuration a factory call captured is only read: no step       *)
(* changes a registered middleware or its configuration, and every handle     *)
(* any request constructs through that middleware, whatever else is going on  *)
(* at the time, carries that one configuration: the argument of the factory   *)
(* call, or the empty configuration when the call had no argument.            *)
C19_CapturedConfigReadOnly ==
  /\ [](\A m \in 1..Len(app) :
          app[m].config = IF app[m].arg.given THEN app[m].arg.config
                          ELSE [region |-> "unset"])
  /\ [](\A h \in 1..Len(heap) :
          heap[h].config = app[reqs[heap[h].req].frames[heap[h].frame].mw].config)
  /\ [][/\ Len(app') >= Len(app)
        /\ \A m \in 1..Len(app) : app'[m] = app[m]
        /\ \A h \in 1..Len(heap) : heap'[h].config = heap[h].config]_vars

\* two requests are in their handlers at the same time, both behind a middleware
\* made without an argument and one made with a region: each request's handles
\* of the first have the empty configuration, those of the second the region
C19_Witness ==
  /\ Len(app) = 2
  /\ ~app[1].arg.given
  /\ app[2].arg = [given |-> TRUE, config |-> [region |-> "ap-northeast-1"]]
  /\ Len(reqs) = 2
  /\ \A r \in ReqIds :
       LET q == reqs[r] IN
       /\ q.handler = "running"
       /\ Len(q.frames) = 2
       /\ heap[q.frames[1].svc].config = [region |-> "unset"]
       /\ heap[q.frames[1].cli].config = [region |-> "unset"]
       /\ heap[q.frames[2].svc].config = [region |-> "ap-northeast-1"]
       /\ heap[q.frames[2].cli].config = [region |-> "ap-northeast-1"]

----------------------------------------------------------------------------
(* C20: every handle is destroyed at most once, and only by the invocation    *)
(* that constructed it, in its own release step: under any interleaving of    *)
(* requests, a destroyed handle is one whose own invocation has got to its    *)
(* release step, and never one of a request that is still before it.          *)
C20_ReleasedOnceByItsCreator ==
  /\ [](\A h \in 1..Len(heap) :
          LET fr == reqs[heap[h].req].frames[heap[h].frame] IN
          /\ heap[h].destroyed \in {0, 1}
          /\ h \in {fr.svc, fr.cli}
          /\ heap[h].destroyed = 1 =>
               /\ app[fr.mw].backend \in {"S3", "SecretsManager"}
               /\ fr.pc \in {"destroy2", "returned"}
               /\ fr.pc = "destroy2" => h = fr.svc)
  /\ [][\A h \in 1..Len(heap) :
          heap'[h].destroyed # heap[h].destroyed =>
            LET fr == reqs[heap[h].req].frames[heap[h].frame] IN
            /\ running = heap[h].req
            /\ \A j \in FrameIds(running) :
                 j > heap[h].frame => reqs[running].frames[j].pc \in {"returned", "threw"}
            /\ \/ fr.pc = "destroy1" /\ h = fr.svc
               \/ fr.pc = "destroy2" /\ h = fr.cli]_vars

\* two requests went through the same S3 middleware and were both in flight;
\* the first has finished and destroyed its two handles, the second is still in
\* its handler and its two handles, constructed before that release, are live
C20_Witness ==
  \E r1, r2 \in ReqIds :
    LET q1 == reqs[r1]
        q2 == reqs[r2]
    IN /\ r1 # r2
       /\ Len(q1.frames) = 1 /\ Len(q2.frames) = 1
       /\ q1.frames[1].mw = q2.frames[1].mw
       /\ app[q1.frames[1].mw].backend = "S3"
       /\ q1.frames[1].pc = "returned"
       /\ heap[q1.frames[1].svc].destroyed = 1
       /\ heap[q1.frames[1].cli].destroyed = 1
       /\ q2.handler = "running"
       /\ q2.frames[1].pc = "awaiting"
       /\ q2.frames[1].svc > q1.frames[1].cli
       /\ heap[q2.frames[1].svc].destroyed = 0
       /\ heap[q2.frames[1].cli].destroyed = 0

----------------------------------------------------------------------------
(* C21: with several middlewares on one route, invocations are entered in     *)
(* registration order, an earlier-registered one has constructed and          *)
(* published both handles before a later one constructs anything, and the     *)
(* releases of S3 and Secrets Manager invocations go the other way round: a   *)
(* later-registered invocation has destroyed both of its handles before an    *)
(* earlier one destroys any; within one invocation the friendly handle is     *)
(* destroyed before the low-level one.                                        *)
C21_ReleaseInReverseOrder ==
  \A r \in ReqIds :
    LET q == reqs[r]
        releasing(fr) == app[fr.mw].backend \in {"S3", "SecretsManager"}
    IN /\ \A i \in FrameIds(r) :
            LET fr == q.frames[i] IN
            /\ fr.cli # Undefined => fr.svc < fr.cli
            /\ (fr.cli # Undefined /\ heap[fr.cli].destroyed > 0) =>
                 heap[fr.svc].destroyed > 0
       /\ \A i, j \in FrameIds(r) :
            LET early == q.frames[i]
                late == q.frames[j]
            IN i < j =>
                 /\ early.mw < late.mw
                 /\ early.pc \notin {"create1", "create2", "set1", "set2", "next"}
                 /\ q.var[SvcSlot(app[early.mw].backend)] # Undefined
                 /\ q.var[CliSlot(app[early.mw].backend)] # Undefined
                 /\ late.svc # Undefined => early.cli < late.svc
                 /\ (releasing(early) /\ releasing(late)
                       /\ heap[early.svc].destroyed > 0) =>
                      /\ late.pc = "returned"
                      /\ heap[late.svc].destroyed > 0
                      /\ heap[late.cli].destroyed > 0

\* S3 was registered before Secrets Manager on the route of a request whose
\* handler completed: the Secrets Manager invocation has destroyed both of its
\* handles and returned, the S3 invocation is about to destroy its first
C21_Witness ==
  \E r \in ReqIds :
    LET q == reqs[r] IN
    /\ Len(q.frames) = 2
    /\ app[q.frames[1].mw].backend = "S3"
    /\ app[q.frames[2].mw].backend = "SecretsManager"
    /\ q.handler = "resolved"
    /\ q.frames[2].pc = "returned"
    /\ heap[q.frames[2].svc].destroyed = 1
    /\ heap[q.frames[2].cli].destroyed = 1
    /\ q.frames[1].pc = "destroy1"
    /\ heap[q.frames[1].svc].destroyed = 0
    /\ heap[q.frames[1].cli].destroyed = 0

----------------------------------------------------------------------------
(* C22: when middlewares of the same backend are on one route more than once, *)
(* the pair of handles a later-registered one publishes replaces the earlier  *)
(* pair: from then on no context variable holds a handle of the earlier one,  *)
(* and the context and the handler hold the pair of the latest-registered     *)
(* one. When such a request through S3 or Secrets Manager middlewares has     *)
(* completed normally, the four handles of any two of them are four different *)
(* objects and each has been destroyed exactly once.                          *)
C22_LaterInstanceWins ==
  \A r \in ReqIds :
    LET q == reqs[r] IN
    \A i, j \in FrameIds(r) :
      LET early == q.frames[i]
          late == q.frames[j]
          b == app[late.mw].backend
          latest == \A k \in FrameIds(r) : k > j => app[q.frames[k].mw].backend # b
      IN (i < j /\ app[early.mw].backend = b) =>
           /\ late.pc \notin {"create1", "create2", "set1", "set2"} =>
                /\ \A n \in Names : q.var[n] \notin {early.svc, early.cli}
                /\ latest => /\ q.var[SvcSlot(b)] = late.svc
                             /\ q.var[CliSlot(b)] = late.cli
           /\ q.handler \in {"running", "resolved", "rejected"} =>
                /\ \A n \in Names : q.seen[n] \notin {early.svc, early.cli}
                /\ latest => /\ q.seen[SvcSlot(b)] = late.svc
                             /\ q.seen[CliSlot(b)] = late.cli
           /\ (b \in {"S3", "SecretsManager"} /\ early.pc = "returned") =>
                /\ Cardinality({early.svc, early.cli, late.svc, late.cli}) = 4
                /\ \A h \in {early.svc, early.cli, late.svc, late.cli} :
                     heap[h].destroyed = 1

\* a request behind two S3 middlewares has completed normally: its handler read
\* the second middleware's pair, and all four handles are destroyed
C22_Witness ==
  \E r \in ReqIds :
    LET q == reqs[r] IN
    /\ Len(q.frames) = 2
    /\ app[q.frames[1].mw].backend = "S3"
    /\ app[q.frames[2].mw].backend = "S3"
    /\ q.handler = "resolved"
    /\ q.frames[1].pc = "returned"
    /\ q.frames[2].pc = "returned"
    /\ q.seen["S3"] = q.frames[2].svc
    /\ q.seen["S3Client"] = q.frames[2].cli
    /\ q.seen["S3"] # q.frames[1].svc
    /\ \A h \in {q.frames[1].svc, q.frames[1].cli, q.frames[2].svc, q.frames[2].cli} :
         heap[h].destroyed = 1

----------------------------------------------------------------------------
(* C23: in an S3 or Secrets Manager invocation, when the destroy() of the     *)
(* friendly handle throws after the downstream stage completed normally, the  *)
(* invocation ends there with that error: the low-level handle is not         *)
(* destroyed then or later, the stage awaiting the invocation gets the same   *)
(* error (the request is rejected with it when the invocation is the          *)
(* outermost), although the handler produced its response. A low-level        *)
(* handle is only ever destroyed after its friendly handle was.               *)
C23_FirstReleaseFailureSkipsSecond ==
  /\ [](\A r \in ReqIds :
          \A i \in FrameIds(r) :
            LET q == reqs[r]
                fr == q.frames[i]
                downstreamOk == IF i < Len(q.frames)
                                THEN q.frames[i + 1].pc = "returned"
                                ELSE q.handler = "resolved"
            IN /\ (fr.cli # Undefined /\ heap[fr.cli].destroyed > 0) =>
                    heap[fr.svc].destroyed > 0
               /\ (fr.pc = "threw" /\ downstreamOk /\ heap[fr.svc].destroyed = 0) =>
                    /\ app[fr.mw].backend \in {"S3", "SecretsManager"}
                    /\ fr.err \in {"e1", "e2"}
                    /\ heap[fr.cli].destroyed = 0
                    /\ q.handler = "resolved"
                    /\ q.res = [status |-> 200, body |-> "OK"]
                    /\ (i > 1 /\ q.frames[i - 1].pc \in {"returned", "threw"}) =>
                         /\ q.frames[i - 1].pc = "threw"
                         /\ q.frames[i - 1].err = fr.err
                    /\ i = 1 => Outcome(q) = [kind |-> "rejected",
                                              res |-> [status |-> 404, body |-> "404 Not Found"],
                                              err |-> fr.err])
  /\ [][\A r \in ReqIds :
          \A i \in FrameIds(r) :
            LET fr == reqs[r].frames[i] IN
            (fr.pc = "destroy1" /\ reqs'[r].frames[i] # fr
               /\ heap'[fr.svc].destroyed = heap[fr.svc].destroyed) =>
              /\ reqs'[r].frames[i].pc = "threw"
              /\ reqs'[r].frames[i].err \in {"e1", "e2"}
              /\ heap' = heap
              /\ running' = 0]_vars

\* behind an S3 middleware the handler answered 200, then s3.destroy() threw:
\* the invocation has thrown, neither handle is destroyed, and the request is
\* rejected
C23_Witness ==
  \E r \in ReqIds :
    LET q == reqs[r] IN
    /\ Len(q.frames) = 1
    /\ app[q.frames[1].mw].backend = "S3"
    /\ q.handler = "resolved"
    /\ q.res.status = 200
    /\ q.frames[1].pc = "threw"
    /\ q.frames[1].err = "e1"
    /\ heap[q.frames[1].svc].destroyed = 0
    /\ heap[q.frames[1].cli].destroyed = 0
    /\ Outcome(q).kind = "rejected"
====
